---- MODULE Spec2Model ----
(***************************************************************************)
(* Model of app.py: the code-generation pipeline (generate and             *)
(* generation_logic), the sandbox orchestrator (run_code_in_docker and     *)
(* run_code_locally) and the health reporter (health_check).               *)
(*                                                                         *)
(* SpecGen is one generation request, stepped from one external            *)
(* interaction to the next (each model call, each event handed to the      *)
(* transport).  SpecRun is a fixed set of concurrent run_code_in_docker    *)
(* calls, stepped from one blocking subprocess or filesystem call to the   *)
(* next.  SpecHealth is one health_check request, stepped from one probe   *)
(* to the next.                                                            *)
(***************************************************************************)
EXTENDS Integers, Sequences, FiniteSets, TLC

\* app.py:31
MAX_RETRIES == 3

\* ---------------------------------------------------------------------
\* Inputs and outcomes of the generation pipeline
\* ---------------------------------------------------------------------

\* Values of the "prompt" and "language" request parameters; "" stands for
\* an absent or empty parameter (both are falsy).
Prompts == {"", "print hello"}
Languages == {"", "python"}

\* uploaded_file_info: "none" is None, otherwise the file's content.
FileInfos == {"none", "data.csv content"}

\* What one model.generate_content call can do: return a response whose
\* .text is some code, return a falsy response, or raise.
ModelTexts == {"code_a", "code_b"}
ModelErrors == {"quota exceeded"}
ModelOutcomes ==
    [kind : {"text"}, val : ModelTexts]
        \cup [kind : {"falsy"}, val : {""}]
        \cup [kind : {"raise"}, val : ModelErrors]

VARIABLES gpc, req, attempt, events, calls, exc, generated

gvars == <<gpc, req, attempt, events, calls, exc, generated>>

VARIABLES rpc, lang, probe, temp_dir, docker_command, invoked, outcome,
          proc, result, workspaces, files, issued, tmp_files, inspected,
          instance

rvars == <<rpc, lang, probe, temp_dir, docker_command, invoked, outcome,
           proc, result, workspaces, files, issued, tmp_files, inspected,
           instance>>

VARIABLES hpc, hstatus, hidx

hvars == <<hpc, hstatus, hidx>>

vars == <<gvars, rvars, hvars>>

NoReq == [method |-> "none", json |-> FALSE, prompt |-> "", language |-> "",
          uploaded_file_info |-> "none"]

\* The decimal text of a small number, as an f-string prints it.
Str(n) ==
    CASE n = 0 -> "0" [] n = 1 -> "1" [] n = 2 -> "2" [] n = 3 -> "3"
      [] n = 4 -> "4" [] n = 5 -> "5" [] n = 6 -> "6" [] n = 7 -> "7"
      [] n = 8 -> "8" [] n = 9 -> "9"

\* stream_message: one server-sent event (its event line and data line).
stream_message(event, data) == [event |-> event, data |-> data]

AttemptMessageZeroBased(k) ==
    "Attempt " \o Str(k) \o "/" \o Str(MAX_RETRIES) \o ": Generating code..."

AttemptMessage(k) ==
    "Attempt " \o Str(k + 1) \o "/" \o Str(MAX_RETRIES) \o ": Generating code..."

RetryMessage(e) == "Attempt failed: " \o e \o ". Retrying..."

FailedMessage(e) == "Code generation failed: " \o e

AttemptStatus(k) == stream_message("status", [message |-> AttemptMessage(k)])

RetryStatus(e) == stream_message("status", [message |-> RetryMessage(e)])

FinalCode(code) == stream_message("final_code", [code |-> code, output |-> ""])

ErrorEvent(e) == stream_message("error", [message |-> FailedMessage(e)])

\* The fixed one-event bodies the endpoint answers with on bad input.
RejectEvent(msg) == stream_message("error", [message |-> msg])

\* The prompt sent to the model.
full_prompt(prompt, info) ==
    IF info # "none"
    THEN "File content:\n" \o info \o "\n\nPrompt: " \o prompt
    ELSE prompt

IsLastAttemptOffByOne(k) == k = MAX_RETRIES

\* The last attempt of the for loop: an exception there is re-raised.
IsLastAttempt(k) == k = MAX_RETRIES - 1

\* range(MAX_RETRIES) still has an iteration for index k.
LoopHasNext(k) == k < MAX_RETRIES

GenInit ==
    /\ gpc = "idle"
    /\ req = NoReq
    /\ attempt = 0
    /\ events = <<>>
    /\ calls = <<>>
    /\ exc = "none"
    /\ generated = "none"

generateNoLanguageCheck(method, json, prompt, language, info) ==
    /\ gpc = "idle"
    /\ req' = [method |-> method, json |-> json, prompt |-> prompt,
               language |-> language,
               uploaded_file_info |-> IF method = "POST" THEN info ELSE "none"]
    /\ IF method = "POST" /\ ~json
       THEN /\ events' = <<RejectEvent("No JSON data provided")>>
            /\ gpc' = "rejected"
       ELSE IF prompt = ""
       THEN /\ events' = <<RejectEvent("Prompt is required")>>
            /\ gpc' = "rejected"
       ELSE /\ events' = <<>>
            /\ gpc' = "loop"
    /\ UNCHANGED <<attempt, calls, exc, generated>>
    /\ UNCHANGED <<rvars, hvars>>

\* generate(): read the parameters, reject a request without prompt or
\* language with a one-event body, otherwise stream generation_logic.
generate(method, json, prompt, language, info) ==
    /\ gpc = "idle"
    /\ req' = [method |-> method, json |-> json, prompt |-> prompt,
               language |-> language,
               uploaded_file_info |-> IF method = "POST" THEN info ELSE "none"]
    /\ IF method = "POST" /\ ~json
       THEN /\ events' = <<RejectEvent("No JSON data provided")>>
            /\ gpc' = "rejected"
       ELSE IF prompt = ""
       THEN /\ events' = <<RejectEvent("Prompt is required")>>
            /\ gpc' = "rejected"
       ELSE IF language = ""
       THEN /\ events' = <<RejectEvent("Language is required")>>
            /\ gpc' = "rejected"
       ELSE /\ events' = <<>>
            /\ gpc' = "loop"
    /\ UNCHANGED <<attempt, calls, exc, generated>>
    /\ UNCHANGED <<rvars, hvars>>

Generate ==
    \E method \in {"GET", "POST"}, json \in BOOLEAN, prompt \in Prompts,
       language \in Languages, info \in FileInfos :
        /\ (method = "GET" => json = FALSE /\ info = "none")
        /\ (~json /\ method = "POST" => prompt = "" /\ language = "" /\ info = "none")
        /\ generate(method, json, prompt, language, info)

LoopHeadSilent ==
    /\ gpc = "loop"
    /\ events' = events
    /\ gpc' = IF LoopHasNext(attempt) THEN "call" ELSE "done"
    /\ UNCHANGED <<req, attempt, calls, exc, generated>>
    /\ UNCHANGED <<rvars, hvars>>

\* Head of the for loop: the next attempt's status event, or the loop is
\* exhausted and the generator returns.
LoopHead ==
    /\ gpc = "loop"
    /\ IF LoopHasNext(attempt)
       THEN /\ events' = Append(events, AttemptStatus(attempt))
            /\ gpc' = "call"
       ELSE /\ events' = events
            /\ gpc' = "done"
    /\ UNCHANGED <<req, attempt, calls, exc, generated>>
    /\ UNCHANGED <<rvars, hvars>>

\* model.generate_content(full_prompt) and the reading of response.text.
ModelCall ==
    /\ gpc = "call"
    /\ \E o \in ModelOutcomes :
        /\ calls' = Append(calls,
                [prompt |-> full_prompt(req.prompt, req.uploaded_file_info),
                 attempt |-> attempt, outcome |-> o])
        /\ CASE o.kind = "text" ->
                    /\ generated' = o.val
                    /\ gpc' = "final"
                    /\ UNCHANGED <<attempt, exc>>
             [] o.kind = "falsy" ->
                    \* "continue": next iteration, nothing emitted
                    /\ attempt' = attempt + 1
                    /\ gpc' = "loop"
                    /\ UNCHANGED <<generated, exc>>
             [] o.kind = "raise" ->
                    /\ exc' = o.val
                    /\ gpc' = "except"
                    /\ UNCHANGED <<attempt, generated>>
    /\ UNCHANGED <<req, events>>
    /\ UNCHANGED <<rvars, hvars>>

EmitFinalCodeNoReturn ==
    /\ gpc = "final"
    /\ events' = Append(events, FinalCode(generated))
    /\ attempt' = attempt + 1
    /\ gpc' = "loop"
    /\ UNCHANGED <<req, calls, exc, generated>>
    /\ UNCHANGED <<rvars, hvars>>

\* yield from stream_message("final_code", ...); return
EmitFinalCode ==
    /\ gpc = "final"
    /\ events' = Append(events, FinalCode(generated))
    /\ gpc' = "done"
    /\ UNCHANGED <<req, attempt, calls, exc, generated>>
    /\ UNCHANGED <<rvars, hvars>>

InnerExceptSilent ==
    /\ gpc = "except"
    /\ IF IsLastAttempt(attempt)
       THEN /\ gpc' = "outer_except"
            /\ UNCHANGED <<events, attempt, exc>>
       ELSE /\ events' = events
            /\ attempt' = attempt + 1
            /\ exc' = "none"
            /\ gpc' = "loop"
    /\ UNCHANGED <<req, calls, generated>>
    /\ UNCHANGED <<rvars, hvars>>

\* The inner except clause: re-raise on the last attempt, otherwise the
\* retry status and the next iteration.
InnerExcept ==
    /\ gpc = "except"
    /\ IF IsLastAttempt(attempt)
       THEN /\ gpc' = "outer_except"
            /\ UNCHANGED <<events, attempt, exc>>
       ELSE /\ events' = Append(events, RetryStatus(exc))
            /\ attempt' = attempt + 1
            /\ exc' = "none"
            /\ gpc' = "loop"
    /\ UNCHANGED <<req, calls, generated>>
    /\ UNCHANGED <<rvars, hvars>>

\* The outer except clause: the terminal error event.
OuterExcept ==
    /\ gpc = "outer_except"
    /\ events' = Append(events, ErrorEvent(exc))
    /\ gpc' = "done"
    /\ UNCHANGED <<req, attempt, calls, exc, generated>>
    /\ UNCHANGED <<rvars, hvars>>

GenNext ==
    \/ Generate
    \/ LoopHead
    \/ ModelCall
    \/ EmitFinalCode
    \/ InnerExcept
    \/ OuterExcept



\* ---------------------------------------------------------------------
\* The sandbox orchestrator: run_code_in_docker and run_code_locally
\* ---------------------------------------------------------------------

\* Number of run_code_in_docker calls, which may overlap in any way.
NumCalls == 2

RunCalls == 1..NumCalls

\* app.py:37-58.  "none" stands for None.
DOCKER_IMAGES ==
    [l \in {"python", "cpp", "java", "html"} |->
        CASE l = "python" ->
                [image |-> "stellar-python-sandbox:3.12", file |-> "main.py",
                 command |-> <<"python", "main.py">>]
          [] l = "cpp" ->
                [image |-> "stellar-cpp-sandbox:latest", file |-> "main.cpp",
                 command |-> <<"g++", "main.cpp", "-o", "main", "&&", "./main">>]
          [] l = "java" ->
                [image |-> "stellar-java-sandbox:latest", file |-> "Main.java",
                 command |-> <<"javac", "Main.java", "&&", "java", "Main">>]
          [] l = "html" ->
                [image |-> "none", file |-> "index.html", command |-> <<>>]]

\* The languages calls are made with: one per kind of table row (python is
\* the only one the local backend runs, cpp stands for the compiled rows,
\* html has no image) and one that is not in the table.
RunLanguages == {"python", "cpp", "html", "ruby"}

\* uploaded_file_info of a call, which only lines 266-270 read: None, a
\* file the upload folder holds, or a file the upload folder does not hold.
\* It is drawn where it is read.
Uploads == {"none", "stored", "missing"}

\* The generated code handed to a call.
TheCode == "print(1)"

\* Exit codes a program that finishes in time can have.
ExitCodes == {0, 1}

NoResult == [rc |-> -1, stdout |-> "none", stderr |-> "none"]

Result(rc, out, err) == [rc |-> rc, stdout |-> out, stderr |-> err]

NotSupportedResult ==
    Result(0, "Language not supported for server-side execution.", "")

TimeoutResult == Result(1, "", "Execution timed out after 30 seconds.")

DockerErrorResult(e) == Result(1, "", "Docker execution error: " \o e)

LocalErrorResult(e) == Result(1, "", "Local execution error: " \o e)

LocalUnsupportedResult(language) ==
    Result(1, "", "Local execution not supported for " \o language)

ProgramResult(rc) == Result(rc, "<program stdout>", "<program stderr>")

\* str() of the exceptions the calls of the two functions can raise.
WriteError == "[Errno 28] No space left on device"
CopyError == "[Errno 13] Permission denied"
LaunchError == "[Errno 2] No such file or directory: 'docker'"
TempFileError == "[Errno 28] No space left on device: '/tmp'"
InterpreterError == "[Errno 2] No such file or directory: 'python'"
LocalTimeoutError == "Command '['python', '<temp file>']' timed out after 30 seconds"

NoCommand == [mode |-> "none", mount |-> 0, target |-> "none", command |-> <<>>]

SupportedAnyRow(language) == language \in DOMAIN DOCKER_IMAGES

\* lang_config is usable: the language is in the table and has an image.
Supported(language) ==
    /\ language \in DOMAIN DOCKER_IMAGES
    /\ DOCKER_IMAGES[language].image # "none"

\* What subprocess.run(["docker", "info"], check=True) can do: return
\* ("ok"), raise CalledProcessError on a non-zero exit ("nonzero"), raise
\* FileNotFoundError when there is no docker binary ("missing"), or raise
\* another OSError such as PermissionError ("oserror").
ProbeOutcomes == {"ok", "nonzero", "missing", "oserror"}

ProbeRouteNoCheck(p) ==
    CASE p \in {"ok", "nonzero"} -> "isolated"
      [] p = "missing" -> "local"
      [] OTHER -> "raise"

\* Where the probe's outcome sends the call: on to the container path, to
\* run_code_locally (the two exceptions the except clause names), or out of
\* the function with the exception.
ProbeRoute(p) ==
    CASE p = "ok" -> "isolated"
      [] p \in {"nonzero", "missing"} -> "local"
      [] OTHER -> "raise"

uuid4Fixed(n) == 1

\* uuid.uuid4(): a value no earlier call of it returned; n values were
\* issued so far.
uuid4(n) == n + 1

rmtreeNoop(dirs, d) == dirs

\* shutil.rmtree(temp_dir, ignore_errors=True) on the set of directories.
rmtree(dirs, d) == dirs \ {d}

\* The command list built at lines 285-294.
DockerRun(language, d) ==
    [mode |-> "run", mount |-> d, target |-> DOCKER_IMAGES[language].image,
     command |-> DOCKER_IMAGES[language].command]

DockerExec(language) ==
    [mode |-> "exec", mount |-> 0, target |-> language \o "-sandbox",
     command |-> DOCKER_IMAGES[language].command]

RunInit ==
    /\ rpc = [c \in RunCalls |-> "idle"]
    /\ lang = [c \in RunCalls |-> "none"]
    /\ probe = [c \in RunCalls |-> "none"]
    /\ temp_dir = [c \in RunCalls |-> 0]
    /\ docker_command = [c \in RunCalls |-> NoCommand]
    /\ invoked = [c \in RunCalls |-> {}]
    /\ outcome = [c \in RunCalls |-> "none"]
    /\ proc = [c \in RunCalls |-> "none"]
    /\ result = [c \in RunCalls |-> NoResult]
    /\ workspaces = {}
    /\ files = {}
    /\ issued = 0
    /\ tmp_files = {}
    /\ inspected = [c \in RunCalls |-> "none"]
    /\ instance = [c \in RunCalls |-> "none"]

\* The return statements inside try ... finally: the result, and the
\* finally clause's rmtree of the call's workspace before the call returns.
ReturnFinally(c, how, res) ==
    /\ outcome' = [outcome EXCEPT ![c] = how]
    /\ result' = [result EXCEPT ![c] = res]
    /\ workspaces' = rmtree(workspaces, temp_dir[c])
    /\ files' = {f \in files : f[1] \in workspaces'}
    /\ rpc' = [rpc EXCEPT ![c] = "returned"]

\* Entry of run_code_in_docker: the table lookup and the early return.
RunCode(c) ==
    /\ rpc[c] = "idle"
    /\ \E language \in RunLanguages :
        /\ lang' = [lang EXCEPT ![c] = language]
        /\ IF Supported(language)
           THEN /\ rpc' = [rpc EXCEPT ![c] = "probe"]
                /\ UNCHANGED <<result, outcome>>
           ELSE /\ rpc' = [rpc EXCEPT ![c] = "returned"]
                /\ result' = [result EXCEPT ![c] = NotSupportedResult]
                /\ outcome' = [outcome EXCEPT ![c] = "not_supported"]
    /\ UNCHANGED <<probe, temp_dir, docker_command, invoked, proc,
                   workspaces, files, issued, tmp_files>>
    /\ UNCHANGED <<inspected, instance>>
    /\ UNCHANGED <<gvars, hvars>>

ProbeCached(c) ==
    /\ rpc[c] = "probe"
    /\ \E p \in ProbeOutcomes :
        LET known == {d \in RunCalls : probe[d] # "none"}
            used == IF known = {} THEN p ELSE probe[CHOOSE d \in known : TRUE]
        IN /\ probe' = IF known = {} THEN [probe EXCEPT ![c] = p] ELSE probe
           /\ CASE ProbeRoute(used) = "isolated" ->
                    /\ rpc' = [rpc EXCEPT ![c] = "mkdir"]
                    /\ UNCHANGED outcome
                [] ProbeRoute(used) = "local" ->
                    /\ rpc' = [rpc EXCEPT ![c] = "local"]
                    /\ UNCHANGED outcome
                [] ProbeRoute(used) = "raise" ->
                    /\ rpc' = [rpc EXCEPT ![c] = "raised"]
                    /\ outcome' = [outcome EXCEPT ![c] = "probe_raised"]
    /\ UNCHANGED <<lang, temp_dir, docker_command, invoked, proc, result,
                   workspaces, files, issued, tmp_files>>
    /\ UNCHANGED <<inspected, instance>>
    /\ UNCHANGED <<gvars, hvars>>

\* The docker info probe and its except clause.
Probe(c) ==
    /\ rpc[c] = "probe"
    /\ \E p \in ProbeOutcomes :
        /\ probe' = [probe EXCEPT ![c] = p]
        /\ CASE ProbeRoute(p) = "isolated" ->
                    /\ rpc' = [rpc EXCEPT ![c] = "mkdir"]
                    /\ UNCHANGED outcome
             [] ProbeRoute(p) = "local" ->
                    /\ rpc' = [rpc EXCEPT ![c] = "local"]
                    /\ UNCHANGED outcome
             [] ProbeRoute(p) = "raise" ->
                    /\ rpc' = [rpc EXCEPT ![c] = "raised"]
                    /\ outcome' = [outcome EXCEPT ![c] = "probe_raised"]
    /\ UNCHANGED <<lang, temp_dir, docker_command, invoked, proc, result,
                   workspaces, files, issued, tmp_files>>
    /\ UNCHANGED <<inspected, instance>>
    /\ UNCHANGED <<gvars, hvars>>

\* temp_dir = ./temp_run_<uuid4>; os.makedirs(temp_dir, exist_ok=True),
\* which is outside the try statement: its exception leaves the function.
MakeWorkspace(c) ==
    /\ rpc[c] = "mkdir"
    /\ issued' = issued + 1
    /\ temp_dir' = [temp_dir EXCEPT ![c] = uuid4(issued)]
    /\ \/ /\ workspaces' = workspaces \cup {uuid4(issued)}
          /\ rpc' = [rpc EXCEPT ![c] = "write"]
          /\ UNCHANGED outcome
       \/ /\ uuid4(issued) \notin workspaces
          /\ workspaces' = workspaces
          /\ rpc' = [rpc EXCEPT ![c] = "raised"]
          /\ outcome' = [outcome EXCEPT ![c] = "mkdir_raised"]
    /\ UNCHANGED <<lang, probe, docker_command, invoked, proc, result,
                   files, tmp_files>>
    /\ UNCHANGED <<inspected, instance>>
    /\ UNCHANGED <<gvars, hvars>>

\* Writing the entry file and copying the uploaded file when the upload
\* folder has it; a failure of either goes to "except Exception" and the
\* finally clause.
WriteFiles(c) ==
    /\ rpc[c] = "write"
    /\ LET entry == <<temp_dir[c], DOCKER_IMAGES[lang[c]].file, TheCode, c>>
           copy == <<temp_dir[c], "<uploaded name>", "<uploaded bytes>", c>>
       IN \E uploaded_file_info \in Uploads :
            \/ /\ temp_dir[c] \in workspaces
               /\ files' = files \cup {entry}
                        \cup (IF uploaded_file_info = "stored" THEN {copy} ELSE {})
               /\ rpc' = [rpc EXCEPT ![c] = "inspect"]
               /\ UNCHANGED <<outcome, result, workspaces>>
            \/ ReturnFinally(c, "write_failed", DockerErrorResult(WriteError))
            \/ /\ uploaded_file_info = "stored"
               /\ ReturnFinally(c, "copy_failed", DockerErrorResult(CopyError))
    /\ UNCHANGED <<lang, probe, temp_dir, docker_command, invoked, proc,
                   issued, tmp_files>>
    /\ UNCHANGED <<inspected, instance>>
    /\ UNCHANGED <<gvars, hvars>>

\* What docker inspect --format={{.State.Running}} "<language>-sandbox"
\* can do: exit with 0 and print true ("running"), exit non-zero or print
\* anything without true, which the condition of line 283 treats alike
\* ("not_running"), or raise ("raised").
InspectOutcomes == {"running", "not_running", "raised"}

InspectNoFallback(c) ==
    /\ rpc[c] = "inspect"
    /\ invoked' = [invoked EXCEPT ![c] = @ \cup {"inspect"}]
    /\ \E r \in InspectOutcomes :
        /\ inspected' = [inspected EXCEPT ![c] = r]
        /\ IF r = "raised"
           THEN /\ ReturnFinally(c, "inspect_failed", DockerErrorResult(LaunchError))
                /\ UNCHANGED docker_command
           ELSE /\ docker_command' =
                    [docker_command EXCEPT ![c] =
                        IF r = "running" THEN DockerExec(lang[c])
                        ELSE DockerRun(lang[c], temp_dir[c])]
                /\ rpc' = [rpc EXCEPT ![c] = "popen"]
                /\ UNCHANGED <<outcome, result, workspaces, files>>
    /\ UNCHANGED <<lang, probe, temp_dir, proc, issued, tmp_files, instance>>
    /\ UNCHANGED <<gvars, hvars>>

\* docker inspect of "<language>-sandbox" and the choice of the command:
\* exec in the running container, otherwise (also when inspect raises) a
\* new container (docker run --rm -v <temp_dir>:/app -w /app <image>).
Inspect(c) ==
    /\ rpc[c] = "inspect"
    /\ \E r \in InspectOutcomes :
        /\ inspected' = [inspected EXCEPT ![c] = r]
        /\ IF r = "running"
           THEN /\ docker_command' = [docker_command EXCEPT ![c] = DockerExec(lang[c])]
                /\ invoked' = [invoked EXCEPT ![c] = @ \cup {"inspect"}]
           ELSE /\ docker_command' =
                    [docker_command EXCEPT ![c] = DockerRun(lang[c], temp_dir[c])]
                /\ invoked' = [invoked EXCEPT ![c] = @ \cup {"inspect"}]
    /\ rpc' = [rpc EXCEPT ![c] = "popen"]
    /\ UNCHANGED <<lang, probe, temp_dir, outcome, proc, result,
                   workspaces, files, issued, tmp_files, instance>>
    /\ UNCHANGED <<gvars, hvars>>

\* subprocess.Popen(docker_command, ...): the docker client process, which
\* has the daemon run the command in the new or the existing container.
Launch(c) ==
    /\ rpc[c] = "popen"
    /\ invoked' = [invoked EXCEPT ![c] = @ \cup {docker_command[c].mode}]
    /\ \/ /\ proc' = [proc EXCEPT ![c] = "running"]
          /\ instance' = [instance EXCEPT ![c] = "running"]
          /\ rpc' = [rpc EXCEPT ![c] = "communicate"]
          /\ UNCHANGED <<outcome, result, workspaces, files>>
       \/ /\ proc' = proc
          /\ instance' = instance
          /\ ReturnFinally(c, "launch_failed", DockerErrorResult(LaunchError))
    /\ UNCHANGED <<lang, probe, temp_dir, docker_command, issued,
                   tmp_files, inspected>>
    /\ UNCHANGED <<gvars, hvars>>

\* process.communicate(timeout=30): the program's result, or TimeoutExpired
\* and its handler (kill, the fixed timeout result).  process.kill() sends
\* SIGKILL to the docker client process only: the command the daemon runs
\* in the container is not a child of that process and goes on running.
Communicate(c) ==
    /\ rpc[c] = "communicate"
    /\ \/ \E rc \in ExitCodes :
            /\ proc' = [proc EXCEPT ![c] = "exited"]
            /\ instance' = [instance EXCEPT ![c] = "exited"]
            /\ ReturnFinally(c, "completed", ProgramResult(rc))
       \/ /\ proc' = [proc EXCEPT ![c] = "killed"]
          /\ instance' = instance
          /\ ReturnFinally(c, "timeout", TimeoutResult)
    /\ UNCHANGED <<lang, probe, temp_dir, docker_command, invoked,
                   issued, tmp_files, inspected>>
    /\ UNCHANGED <<gvars, hvars>>

\* run_code_locally up to the creation of the temporary source file.
Local(c) ==
    /\ rpc[c] = "local"
    /\ IF lang[c] = "python"
       THEN \/ /\ tmp_files' = tmp_files \cup {c}
               /\ rpc' = [rpc EXCEPT ![c] = "local_run"]
               /\ UNCHANGED <<result, outcome>>
            \/ /\ tmp_files' = tmp_files
               /\ rpc' = [rpc EXCEPT ![c] = "returned"]
               /\ result' = [result EXCEPT ![c] = LocalErrorResult(TempFileError)]
               /\ outcome' = [outcome EXCEPT ![c] = "write_failed"]
       ELSE /\ tmp_files' = tmp_files
            /\ rpc' = [rpc EXCEPT ![c] = "returned"]
            /\ result' = [result EXCEPT ![c] = LocalUnsupportedResult(lang[c])]
            /\ outcome' = [outcome EXCEPT ![c] = "local_unsupported"]
    /\ invoked' = [invoked EXCEPT ![c] = @ \cup {"local"}]
    /\ UNCHANGED <<lang, probe, temp_dir, docker_command, proc,
                   workspaces, files, issued>>
    /\ UNCHANGED <<inspected, instance>>
    /\ UNCHANGED <<gvars, hvars>>

\* subprocess.run(["python", f.name], timeout=30) in run_code_locally: the
\* result and os.unlink, or an exception (the interpreter does not start,
\* or TimeoutExpired after subprocess.run killed the child), which skips
\* os.unlink and goes to "except Exception".
LocalRun(c) ==
    /\ rpc[c] = "local_run"
    /\ \/ \E rc \in ExitCodes :
            /\ proc' = [proc EXCEPT ![c] = "exited"]
            /\ tmp_files' = tmp_files \ {c}
            /\ result' = [result EXCEPT ![c] = ProgramResult(rc)]
            /\ outcome' = [outcome EXCEPT ![c] = "completed"]
       \/ /\ proc' = [proc EXCEPT ![c] = "killed"]
          /\ tmp_files' = tmp_files
          /\ result' = [result EXCEPT ![c] = LocalErrorResult(LocalTimeoutError)]
          /\ outcome' = [outcome EXCEPT ![c] = "timeout"]
       \/ /\ proc' = proc
          /\ tmp_files' = tmp_files
          /\ result' = [result EXCEPT ![c] = LocalErrorResult(InterpreterError)]
          /\ outcome' = [outcome EXCEPT ![c] = "launch_failed"]
    /\ rpc' = [rpc EXCEPT ![c] = "returned"]
    /\ UNCHANGED <<lang, probe, temp_dir, docker_command, invoked,
                   workspaces, files, issued>>
    /\ UNCHANGED <<inspected, instance>>
    /\ UNCHANGED <<gvars, hvars>>

RunNext ==
    \/ \E c \in RunCalls : RunCode(c)
    \/ \E c \in RunCalls : Probe(c)
    \/ \E c \in RunCalls : MakeWorkspace(c)
    \/ \E c \in RunCalls : WriteFiles(c)
    \/ \E c \in RunCalls : Inspect(c)
    \/ \E c \in RunCalls : Launch(c)
    \/ \E c \in RunCalls : Communicate(c)
    \/ \E c \in RunCalls : Local(c)
    \/ \E c \in RunCalls : LocalRun(c)

\* ---------------------------------------------------------------------
\* The health reporter: health_check
\* ---------------------------------------------------------------------

\* The keys of DOCKER_IMAGES in the order the for loop visits them.
LanguageOrder == <<"python", "cpp", "java", "html">>

HealthInit ==
    /\ hpc = "idle"
    /\ hstatus = [flask |-> "running", docker |-> "unknown", sandboxes |-> <<>>]
    /\ hidx = 1

\* The docker entry for an outcome of subprocess.run(["docker", "info"])
\* that health_check handles.
DaemonStatus(p) ==
    CASE p = "ok" -> "running"
      [] p = "nonzero" -> "not running"
      [] p = "missing" -> "not installed"

\* The entry of one language for an outcome of its docker inspect.
SandboxStatus(r) ==
    CASE r = "running" -> "running"
      [] r = "not_running" -> "not running"
      [] r = "raised" -> "error checking"

\* The daemon check: the status from the exit code, "not installed" on
\* FileNotFoundError; any other exception leaves health_check.
HealthDaemon ==
    /\ hpc = "idle"
    /\ \E p \in ProbeOutcomes :
        IF p \in {"ok", "nonzero", "missing"}
        THEN /\ hstatus' = [hstatus EXCEPT !.docker = DaemonStatus(p)]
             /\ hpc' = "loop"
        ELSE /\ hstatus' = hstatus
             /\ hpc' = "raised"
    /\ hidx' = hidx
    /\ UNCHANGED <<gvars, rvars>>

\* One iteration of the loop over DOCKER_IMAGES: html is skipped, any other
\* language gets its entry from docker inspect, "error checking" when that
\* raises.
HealthSandbox ==
    /\ hpc = "loop"
    /\ hidx <= Len(LanguageOrder)
    /\ LET language == LanguageOrder[hidx]
       IN IF language = "html"
          THEN hstatus' = hstatus
          ELSE \E r \in InspectOutcomes :
                hstatus' = [hstatus EXCEPT !.sandboxes =
                    [l \in DOMAIN hstatus.sandboxes \cup {language} |->
                        IF l = language THEN SandboxStatus(r)
                        ELSE hstatus.sandboxes[l]]]
    /\ hidx' = hidx + 1
    /\ hpc' = hpc
    /\ UNCHANGED <<gvars, rvars>>

\* return jsonify(status)
HealthReturn ==
    /\ hpc = "loop"
    /\ hidx > Len(LanguageOrder)
    /\ hpc' = "done"
    /\ UNCHANGED <<hstatus, hidx>>
    /\ UNCHANGED <<gvars, rvars>>

HealthNext ==
    \/ HealthDaemon
    \/ HealthSandbox
    \/ HealthReturn

Init == GenInit /\ RunInit /\ HealthInit

\* One generation request, the orchestrator at rest.
SpecGen == Init /\ [][GenNext]_vars

\* Concurrent run_code_in_docker calls, the pipeline at rest.
SpecRun == Init /\ [][RunNext]_vars

\* One health_check request, pipeline and orchestrator at rest.
SpecHealth == Init /\ [][HealthNext]_vars

\* ---------------------------------------------------------------------
\* Properties of the generation pipeline
\* ---------------------------------------------------------------------

IsTerminal(e) == e.event \in {"final_code", "error"}

TerminalCount == Cardinality({i \in DOMAIN events : IsTerminal(events[i])})

RetryCount ==
    Cardinality({i \in DOMAIN events :
        \E e \in ModelErrors : events[i] = RetryStatus(e)})

CallKinds == [i \in DOMAIN calls |-> calls[i].outcome.kind]

LastEvent == events[Len(events)]

\* C1: when generation_logic has finished, whatever the model calls did, its
\* event sequence holds exactly one terminal event (final_code or error) and
\* that event is the last one.
C1_OneTerminalEventLast ==
    gpc = "done" =>
        /\ TerminalCount = 1
        /\ Len(events) > 0
        /\ IsTerminal(LastEvent)

\* C2: the retry state machine: every failed attempt before the last one has
\* emitted one retry status before the next attempt starts, a finished request
\* ended either with final_code after a successful call or with error after
\* MAX_RETRIES failed calls, the model is called at most MAX_RETRIES times and
\* never after a success, and error appears only after MAX_RETRIES failures.
C2_RetryStateMachine ==
    /\ Len(calls) <= MAX_RETRIES
    /\ \A i \in DOMAIN calls : i < Len(calls) => CallKinds[i] # "text"
    /\ (gpc = "loop" => RetryCount = attempt)
    /\ (gpc = "done" =>
            \/ /\ CallKinds[Len(calls)] = "text"
               /\ LastEvent.event = "final_code"
            \/ /\ Len(calls) = MAX_RETRIES
               /\ \A i \in DOMAIN calls : CallKinds[i] # "text"
               /\ LastEvent.event = "error")
    /\ (gpc # "rejected" /\ (\E i \in DOMAIN events : events[i].event = "error") =>
            /\ Len(calls) = MAX_RETRIES
            /\ \A i \in DOMAIN calls : CallKinds[i] # "text")

\* The model raised on attempts 1 and 2 and returned code on attempt 3.
FailFailSucceed == CallKinds = <<"raise", "raise", "text">>

\* The model raised on all three attempts.
FailFailFail == CallKinds = <<"raise", "raise", "raise">>

\* C9 as stated: fail, fail, succeed gives exactly 5 events.
C9_FiveEvents ==
    gpc = "done" /\ FailFailSucceed => Len(events) = 5

\* C9 amended: fail, fail, succeed gives exactly 6 events: the three attempt
\* status events interleaved with the two retry status events, then
\* final_code carrying the text of the third call.
C9_SixEvents ==
    gpc = "done" /\ FailFailSucceed =>
        events = <<AttemptStatus(0), RetryStatus(calls[1].outcome.val),
                   AttemptStatus(1), RetryStatus(calls[2].outcome.val),
                   AttemptStatus(2), FinalCode(calls[3].outcome.val)>>

C9_Witness ==
    gpc = "done" /\ FailFailSucceed /\ LastEvent.event = "final_code"

\* C10 as stated: three failures give 3 status events and then error, 4
\* events in total.
C10_FourEvents ==
    gpc = "done" /\ FailFailFail =>
        /\ Len(events) = 4
        /\ \A i \in 1..3 : events[i].event = "status"
        /\ events[4].event = "error"

\* C10 amended: three failures give the three attempt status events
\* interleaved with the two retry status events and then a single error
\* event, 6 events in total, error being the last and only terminal one.
C10_SixEvents ==
    gpc = "done" /\ FailFailFail =>
        /\ events = <<AttemptStatus(0), RetryStatus(calls[1].outcome.val),
                      AttemptStatus(1), RetryStatus(calls[2].outcome.val),
                      AttemptStatus(2), ErrorEvent(calls[3].outcome.val)>>
        /\ TerminalCount = 1

C10_Witness ==
    gpc = "done" /\ FailFailFail /\ LastEvent.event = "error"

\* The text of the status event that announces attempt k, k counted from 1.
AttemptText(k) ==
    CASE k = 1 -> "Attempt 1/3: Generating code..."
      [] k = 2 -> "Attempt 2/3: Generating code..."
      [] k = 3 -> "Attempt 3/3: Generating code..."
      [] OTHER -> "no such attempt"

IsAttemptStatus(e, k) ==
    e = [event |-> "status", data |-> [message |-> AttemptText(k)]]

AttemptStatusCount ==
    Cardinality({i \in DOMAIN events :
        \E k \in 1..MAX_RETRIES : IsAttemptStatus(events[i], k)})

\* C11: when the model succeeds on the first attempt the finished request
\* has exactly two events, the status "Attempt 1/3: Generating code..." and
\* then final_code with the model's text as code and "" as output; every
\* final_code event has output "", and the pipeline starts no
\* run_code_in_docker call and creates no workspace.
C11_FirstAttemptSuccess ==
    /\ (gpc = "done" /\ CallKinds = <<"text">> =>
            events = <<[event |-> "status",
                        data |-> [message |-> "Attempt 1/3: Generating code..."]],
                       [event |-> "final_code",
                        data |-> [code |-> calls[1].outcome.val, output |-> ""]]>>)
    /\ \A i \in DOMAIN events :
            events[i].event = "final_code" => events[i].data.output = ""
    /\ \A c \in RunCalls : rpc[c] = "idle" /\ invoked[c] = {}
    /\ workspaces = {}

C11_Witness ==
    /\ gpc = "done"
    /\ CallKinds = <<"text">>
    /\ req.prompt = "print hello" /\ req.language = "python"
    /\ LastEvent.event = "final_code"

\* C12: a request that was received without a prompt or without a language
\* has been answered with exactly one event, an error, without any model
\* call and without entering generation_logic.
C12_MissingInputRejected ==
    req.method # "none" /\ (req.prompt = "" \/ req.language = "") =>
        /\ gpc = "rejected"
        /\ Len(events) = 1
        /\ events[1].event = "error"
        /\ calls = <<>>
        /\ attempt = 0

C12_Witness ==
    /\ gpc = "rejected"
    /\ req.json
    /\ req.prompt = "print hello"
    /\ req.language = ""

\* C13: there is never more than one terminal event, and once a terminal
\* event has been emitted no step appends an event or calls the model.
C13_NothingAfterTerminal ==
    /\ [](TerminalCount <= 1)
    /\ [][TerminalCount >= 1 => events' = events /\ calls' = calls]_vars

C13_Witness ==
    gpc = "done" /\ TerminalCount = 1 /\ Len(calls) = 2

\* C14: the i-th model call of a request is the call of attempt i, and when
\* it is made the last event emitted is the status "Attempt i/3: Generating
\* code..." and exactly i attempt status events have been emitted, so one
\* attempt status separates each call from the one before it.
C14_StatusBeforeEachCall ==
    /\ [](\A i \in DOMAIN calls : calls[i].attempt = i - 1)
    /\ [][calls' # calls =>
            /\ Len(calls') = Len(calls) + 1
            /\ Len(events) > 0
            /\ IsAttemptStatus(LastEvent, Len(calls) + 1)
            /\ AttemptStatusCount = Len(calls) + 1]_vars

C14_Witness ==
    Len(calls) = MAX_RETRIES /\ CallKinds = <<"falsy", "raise", "text">>

\* ---------------------------------------------------------------------
\* Properties of the sandbox orchestrator
\* ---------------------------------------------------------------------

\* The call is between the creation of its workspace and its finally clause.
InFlight(c) == rpc[c] \in {"write", "inspect", "popen", "communicate"}

\* The call has written its entry file and not yet returned.
Written(c) == rpc[c] \in {"inspect", "popen", "communicate"}

IsolatedCalls == {"inspect", "exec", "run"}

\* C3: a call whose execution timed out, on either backend, has returned
\* exit code 1 with stderr "Execution timed out after 30 seconds." and
\* nothing it created to hold the code (workspace directory, temporary
\* source file) exists any more.
C3_TimeoutResult ==
    \A c \in RunCalls :
        rpc[c] = "returned" /\ outcome[c] = "timeout" =>
            /\ result[c] = TimeoutResult
            /\ temp_dir[c] \notin workspaces
            /\ c \notin tmp_files

C5_NeverRaises ==
    \A c \in RunCalls :
        /\ rpc[c] # "raised"
        /\ (probe[c] \in ProbeOutcomes \ {"ok"} =>
                rpc[c] \in {"local", "local_run", "returned"})

\* C6: a call for a language without an image, or not in the table, has
\* returned (0, "Language not supported for server-side execution.", "")
\* and has neither probed the daemon, nor invoked a backend, nor created a
\* workspace directory or temporary file.
C6_UnsupportedIsNoOp ==
    \A c \in RunCalls :
        (/\ rpc[c] # "idle"
         /\ \/ lang[c] \notin DOMAIN DOCKER_IMAGES
            \/ DOCKER_IMAGES[lang[c]].image = "none") =>
            /\ rpc[c] = "returned"
            /\ result[c] = NotSupportedResult
            /\ probe[c] = "none"
            /\ invoked[c] = {}
            /\ temp_dir[c] = 0
            /\ c \notin tmp_files

C6_Witness ==
    \E c1, c2 \in RunCalls :
        /\ rpc[c1] = "returned" /\ lang[c1] = "html"
        /\ rpc[c2] = "returned" /\ lang[c2] \notin DOMAIN DOCKER_IMAGES

\* C7: a call whose probe reported the daemon unavailable (non-zero exit or
\* no binary) goes to the local backend and issues no inspect, exec or run.
C7_UnavailableGoesLocal ==
    \A c \in RunCalls :
        probe[c] \in {"nonzero", "missing"} =>
            /\ invoked[c] \cap IsolatedCalls = {}
            /\ rpc[c] \in {"local", "local_run", "returned"}
            /\ temp_dir[c] = 0
            /\ (rpc[c] = "returned" => "local" \in invoked[c])

C7_Witness ==
    \E c1, c2 \in RunCalls :
        /\ rpc[c1] = "returned" /\ probe[c1] = "nonzero" /\ invoked[c1] = {"local"}
        /\ rpc[c2] = "returned" /\ probe[c2] = "missing" /\ invoked[c2] = {"local"}

EntryFile(c) == <<temp_dir[c], DOCKER_IMAGES[lang[c]].file, TheCode, c>>

\* C15: when the named instance was found running, the command is executed
\* in that instance with the call's workspace as its working directory, the
\* entry file with the call's code being in that directory.
C15_ExecRunsInWorkspace ==
    \A c \in RunCalls :
        rpc[c] = "communicate" /\ inspected[c] = "running" =>
            /\ docker_command[c].mode = "exec"
            /\ docker_command[c].target = lang[c] \o "-sandbox"
            /\ docker_command[c].mount = temp_dir[c]
            /\ EntryFile(c) \in files

\* C16: a call whose instance probe did not find a running instance (it
\* exited non-zero, reported something else, or raised) goes on to a new
\* container of the configured image with the call's workspace mounted, and
\* that command is launched: the probe's outcome is never the call's result.
C16_InspectFallsThrough ==
    \A c \in RunCalls :
        inspected[c] \in {"not_running", "raised"} =>
            /\ rpc[c] \in {"popen", "communicate", "returned"}
            /\ docker_command[c] =
                    [mode |-> "run", mount |-> temp_dir[c],
                     target |-> DOCKER_IMAGES[lang[c]].image,
                     command |-> DOCKER_IMAGES[lang[c]].command]
            /\ (rpc[c] \in {"communicate", "returned"} =>
                    /\ "run" \in invoked[c]
                    /\ "exec" \notin invoked[c])
            /\ outcome[c] \in {"none", "completed", "timeout", "launch_failed"}

C16_Witness ==
    \E c1, c2 \in RunCalls :
        /\ inspected[c1] = "raised" /\ outcome[c1] = "completed"
        /\ inspected[c2] = "not_running" /\ outcome[c2] = "completed"

\* C17: every call for a language with an image makes its own probe, keeps
\* what it observed, and takes the backend that observation selects,
\* whatever the other calls observed.
C17_ProbePerCall ==
    /\ [](\A c \in RunCalls :
            /\ (/\ rpc[c] \notin {"idle", "probe"}
                /\ lang[c] \in DOMAIN DOCKER_IMAGES
                /\ DOCKER_IMAGES[lang[c]].image # "none") => probe[c] # "none"
            /\ probe[c] = "ok" =>
                    /\ "local" \notin invoked[c]
                    /\ rpc[c] \notin {"local", "local_run"}
            /\ probe[c] \in {"nonzero", "missing"} =>
                    /\ invoked[c] \cap IsolatedCalls = {}
                    /\ rpc[c] \in {"local", "local_run", "returned"})
    /\ [][\A c \in RunCalls : probe[c] # "none" => probe'[c] = probe[c]]_vars

C17_Witness ==
    \E c1, c2 \in RunCalls :
        /\ probe[c1] = "ok" /\ rpc[c1] = "returned" /\ "run" \in invoked[c1]
        /\ probe[c2] = "nonzero" /\ rpc[c2] = "local_run"

\* C18: after a call has returned the timeout result, neither the process
\* it started nor the command it had the daemon start is still running.
C18_TimeoutKills ==
    \A c \in RunCalls :
        (/\ rpc[c] = "returned"
         /\ result[c] = [rc |-> 1, stdout |-> "",
                         stderr |-> "Execution timed out after 30 seconds."]) =>
            /\ proc[c] # "running"
            /\ instance[c] # "running"

\* C20: a call that has returned has left no temporary source file of
\* run_code_locally behind, and a call that went to run_code_locally for a
\* language other than python has started no process, created no file and
\* returned (1, "", "Local execution not supported for <language>").
C20_LocalTempFileRemoved ==
    \A c \in RunCalls :
        /\ rpc[c] = "returned" => c \notin tmp_files
        /\ ("local" \in invoked[c] /\ lang[c] # "python") =>
                /\ rpc[c] = "returned"
                /\ proc[c] = "none"
                /\ c \notin tmp_files
                /\ result[c] = [rc |-> 1, stdout |-> "",
                                stderr |-> "Local execution not supported for "
                                            \o lang[c]]

\* ---------------------------------------------------------------------
\* Properties of the health reporter
\* ---------------------------------------------------------------------

\* C19: health_check always ends with a report, never with an exception;
\* the finished report has one entry for each language with an image and
\* none for the others, whatever the daemon probe and the other languages'
\* probes did; and no run_code_in_docker state is touched.
C19_HealthReport ==
    /\ hpc # "raised"
    /\ (hpc = "done" =>
            DOMAIN hstatus.sandboxes =
                {l \in DOMAIN DOCKER_IMAGES : DOCKER_IMAGES[l].image # "none"})
    /\ \A l \in DOMAIN hstatus.sandboxes :
            hstatus.sandboxes[l] \in {"running", "not running", "error checking"}
    /\ \A c \in RunCalls : rpc[c] = "idle"
    /\ workspaces = {} /\ tmp_files = {}

====
